---- MODULE Spec2Model ----
(***************************************************************************)
(* huskypo: the explicit-wait / stale-reference recovery protocol of       *)
(* Element (element.py), its predicates (ec_extension.py) and the timeout  *)
(* policy (config.py), over a driver whose rendered tree changes under     *)
(* the feet of the test.                                                   *)
(*                                                                         *)
(* Time is counted in ticks.  WebDriverWait.until evaluates the predicate, *)
(* sleeps one poll interval (PollTicks ticks) and gives up when the time   *)
(* elapsed since it started exceeds the timeout.  A change of the tree     *)
(* stamped t happens in the interval (t-1, t].                             *)
(***************************************************************************)
EXTENDS Integers, Sequences, FiniteSets, TLC

\* ---------------------------------------------------------------- bounds
MaxHandles == 2
MaxNodes == 1
MaxTimeout == 3
PollTicks == 3
MaxChanges == 1
MaxSwipe == 2
MaxAdjust == 2
MaxPages == 2
MaxWebviews == 2
MaxQueue == 3
MaxKeys == 3

\* ---------------------------------------------------------------- values
\* Python values that travel through the cache slots and the results.
Unset == [t |-> "unset", n |-> 0]
PyTrue == [t |-> "True", n |-> 0]
PyFalse == [t |-> "False", n |-> 0]
PyNone == [t |-> "None", n |-> 0]
Elem(h) == [t |-> "elem", n |-> h]
Exc(name) == [t |-> name, n |-> 0]

NoSuchElementException == Exc("NoSuchElementException")
StaleElementReferenceException == Exc("StaleElementReferenceException")
InvalidSessionIdException == Exc("InvalidSessionIdException")
AttributeError == Exc("AttributeError")
TimeoutException == Exc("TimeoutException")
ValueError == Exc("ValueError")
IndexError == Exc("IndexError")
WebDriverException == Exc("WebDriverException")
TypeError == Exc("TypeError")

Exceptions ==
  {NoSuchElementException, StaleElementReferenceException, InvalidSessionIdException,
   AttributeError, TimeoutException, ValueError, IndexError, WebDriverException, TypeError}

\* an except clause that misses the stale reference
ElementReferenceException_NoStale == {AttributeError, InvalidSessionIdException}

\* an except clause that takes every exception
ElementReferenceException_Broad == Exceptions

ElementReferenceException ==
  {AttributeError, StaleElementReferenceException, InvalidSessionIdException}

Opt(S) == {<< >>} \cup {<<x>> : x \in S}

VARIABLES
  nodes,               \* the rendered nodes, in document order, each in the app of one driver
  nextH,               \* next handle id the driver hands out
  DEFAULT,             \* Timeout.DEFAULT
  RERAISE,             \* Timeout.RERAISE
  by, value, index, timeout, remark, \* the descriptor's attributes
  cls,                 \* the descriptor's class: Element or Elements
  _page,               \* the page __get__ bound the descriptor to (0: none yet)
  present_element,     \* Element._present_element
  visible_element,     \* Element._visible_element
  clickable_element,   \* Element._clickable_element
  wait_timeout,        \* Element._wait_timeout
  pc,                  \* where the running call stands
  call,                \* the running (or last) call and its arguments
  w,                   \* the running WebDriverWait
  clock,               \* ticks since the call started
  result,              \* what the last finished call returned or raised
  hist,                \* what the running (or last) call did
  swipe,               \* the arguments and locals of the running swipe_by
  args,                \* the arguments of the last constructor, @dynamic or page call
  contexts,            \* driver.contexts
  current_context,     \* driver.current_context
  page_wait_timeout,   \* Page._wait_timeout
  _action,             \* Page._action: the actions stored in the page's ActionChains
  performed,           \* the actions the driver was told to perform, in order
  ref                  \* the page the reference held by the test was read from (0: none)

env == <<nodes, nextH>>
cfg == <<DEFAULT, RERAISE>>
desc == <<by, value, index, timeout, remark, cls, _page>>
cache == <<present_element, visible_element, clickable_element, wait_timeout>>
ctl == <<pc, call, w, result, hist>>
app == <<contexts, current_context, page_wait_timeout, _action, performed, ref>>
vars == <<nodes, nextH, DEFAULT, RERAISE, by, value, index, timeout, remark, cls, _page, args,
          contexts, current_context, page_wait_timeout, _action, performed, ref,
          present_element, visible_element, clickable_element, wait_timeout,
          pc, call, w, clock, result, hist, swipe>>

\* ---------------------------------------------------------------- driver
Live(h) == \E i \in 1..Len(nodes) : nodes[i].h = h
NodeOf(h) == nodes[CHOOSE i \in 1..Len(nodes) : nodes[i].h = h]

\* self.driver.find_elements(by, v): the driver of the page the descriptor is bound to
\* sees the nodes of its own app
find_elements(v) == SelectSeq(nodes, LAMBDA nd : nd.val = v /\ nd.drv = _page)

\* list[k] of Python
PyIndex(list, k) ==
  IF k >= 0 /\ k < Len(list) THEN Elem(list[k + 1].h)
  ELSE IF k < 0 /\ k >= 0 - Len(list) THEN Elem(list[Len(list) + k + 1].h)
  ELSE IndexError

\* ---------------------------------------------------------------- config.py
\* a reraise that forgets the per-call switch
reraise_IgnoresSwitch(switch) == RERAISE

\* Timeout.reraise
reraise(switch) == IF switch = << >> THEN RERAISE ELSE switch[1]

\* ---------------------------------------------------------------- ec_extension.py
\* a _find_element_by that lets the IndexError of find_elements(...)[index] through
_find_element_by_NoExcept(v, idx) ==
  IF idx = << >>
  THEN IF Len(find_elements(v)) = 0 THEN NoSuchElementException
       ELSE Elem(find_elements(v)[1].h)
  ELSE PyIndex(find_elements(v), idx[1])

_find_element_by(v, idx) ==
  IF idx = << >>
  THEN IF Len(find_elements(v)) = 0 THEN NoSuchElementException
       ELSE Elem(find_elements(v)[1].h)
  ELSE IF PyIndex(find_elements(v), idx[1]) = IndexError THEN NoSuchElementException
       ELSE PyIndex(find_elements(v), idx[1])

\* the state each predicate asks of a located node
Holds(kind, nd) ==
  CASE kind = "present" -> TRUE
    [] kind = "visible" -> nd.disp
    [] kind = "invisible" -> ~nd.disp
    [] kind = "clickable" -> nd.disp /\ nd.enab
    [] kind = "unclickable" -> ~(nd.disp /\ nd.enab)
    [] kind = "selected" -> nd.sel
    [] kind = "unselected" -> ~nd.sel

\* visibility_of_element(e), invisibility_of_element(e), element_to_be_clickable(e), ...
ElementPredicate(kind, e) ==
  IF e.t # "elem" THEN AttributeError
  ELSE IF ~Live(e.n) THEN StaleElementReferenceException
  ELSE IF Holds(kind, NodeOf(e.n)) THEN e ELSE PyFalse

\* an absence that also satisfies the wait for unselected
Tolerated_Unselected(kind, present) ==
  (kind \in {"invisible", "unclickable"} /\ ~present) \/ kind = "unselected"

\* an absence that is tolerated whatever present says
Tolerated_Always(kind, present) == kind \in {"invisible", "unclickable"}

\* except (NoSuchElementException, StaleElementReferenceException): if present: raise; return True
Tolerated(kind, present) == kind \in {"invisible", "unclickable"} /\ ~present

\* presence_of_element_located, absence_of_element_located, visibility_of_element_located, ...
\* stale: the located node is detached before its state is read.
LocatedPredicate(kind, v, idx, present, stale) ==
  LET f == _find_element_by(v, idx) IN
  CASE kind = "present" -> f
    [] kind = "absent" ->
         IF f = NoSuchElementException THEN PyTrue
         ELSE IF f.t = "elem" THEN PyFalse ELSE f
    [] OTHER ->
         IF f = NoSuchElementException
         THEN IF Tolerated(kind, present) THEN PyTrue ELSE f
         ELSE IF f.t # "elem" THEN f
         ELSE IF stale
              THEN IF Tolerated(kind, present) THEN PyTrue ELSE StaleElementReferenceException
         ELSE IF Holds(kind, NodeOf(f.n)) THEN f ELSE PyFalse

\* list[k] of Python finds nothing at k
OutOfRange(list, k) == ~(k < Len(list) /\ k >= 0 - Len(list))

\* list[k] of Python, for k in range
At(list, k) == IF k >= 0 THEN list[k + 1] ELSE list[Len(list) + k + 1]

\* a list of element handles, as the driver returns it
RECURSIVE Code(_)
Code(hs) == IF hs = << >> THEN 0 ELSE hs[1].h + (MaxHandles + 2) * Code(Tail(hs))
ListOf(hs) == [t |-> "list", n |-> Code(hs)]

\* the handles of a list the driver returned
RECURSIVE Handles(_)
Handles(n) == IF n = 0 THEN << >> ELSE <<n % (MaxHandles + 2)>> \o Handles(n \div (MaxHandles + 2))

\* ---------------------------------------------------------------- elements.py
\* Elements.find without its except clause: False[index] raises TypeError
find_NoExcept(elements, idx) ==
  IF idx = << >> THEN [k |-> "return", v |-> elements]
  ELSE IF elements = PyFalse THEN [k |-> "raise", v |-> TypeError]
  ELSE IF OutOfRange(Handles(elements.n), idx[1]) THEN [k |-> "raise", v |-> IndexError]
  ELSE [k |-> "return", v |-> Elem(At(Handles(elements.n), idx[1]))]

\* Elements.find, after elements = self.wait_all_present(timeout, reraise):
\*   if index is not None: try: return elements[index]
\*                         except TypeError: raise TimeoutException(...)
\*   return elements
find(elements, idx) ==
  IF idx = << >> THEN [k |-> "return", v |-> elements]
  ELSE IF elements = PyFalse THEN [k |-> "raise", v |-> TimeoutException]
  ELSE IF OutOfRange(Handles(elements.n), idx[1]) THEN [k |-> "raise", v |-> IndexError]
  ELSE [k |-> "return", v |-> Elem(At(Handles(elements.n), idx[1]))]

\* ---------------------------------------------------------------- element.py
WaitOps ==
  {"wait_present", "wait_absent", "wait_visible", "wait_invisible",
   "wait_clickable", "wait_unclickable", "wait_selected", "wait_unselected"}

\* elements.py: the waits of Elements that read the state of the located nodes
ElementsWaitOps == {"wait_any_visible", "wait_all_visible"}

\* page.py: the wait of Page for a WEBVIEW context
PageWaitOps == {"switch_to_webview"}

\* the methods that end with the outcome of one until
Waits == WaitOps \cup ElementsWaitOps \cup PageWaitOps

KindOf(op) ==
  CASE op = "wait_present" -> "present"
    [] op = "wait_absent" -> "absent"
    [] op = "wait_visible" -> "visible"
    [] op = "wait_invisible" -> "invisible"
    [] op = "wait_clickable" -> "clickable"
    [] op = "wait_unclickable" -> "unclickable"
    [] op = "wait_selected" -> "selected"
    [] op = "wait_unselected" -> "unselected"
    [] op = "wait_any_visible" -> "any_visible"
    [] op = "find" -> "all_present"
    [] op = "wait_all_visible" -> "all_visible"
    [] op = "switch_to_webview" -> "webview"

\* a default remark that leaves the index out
default_remark_NoIndex(v, idx) == <<"str", v>>

\* f'{self.value}' if self.index is None else f'({self.value})[{self.index}]'
default_remark(v, idx) ==
  IF idx = << >> THEN <<"str", v>>
  ELSE <<"str", "(" \o v \o ")[" \o ToString(idx[1]) \o "]">>

\* Element.locator: usable only when both by and value are given
LocatorOK == by # "None" /\ value # "None"

\* an initial_timeout that takes a timeout of 0 for a missing one
initial_timeout_FalsyZero == IF timeout = << >> \/ timeout[1] = 0 THEN DEFAULT ELSE timeout[1]

\* Element.initial_timeout
initial_timeout == IF timeout = << >> THEN DEFAULT ELSE timeout[1]

\* a wait that takes a per-call timeout of 0 for a missing one
wait_FalsyZero(tmo) == IF tmo = << >> \/ tmo[1] = 0 THEN initial_timeout ELSE tmo[1]

\* Element.wait: the timeout the WebDriverWait is built with, kept in _wait_timeout
wait(tmo) == IF tmo = << >> THEN initial_timeout ELSE tmo[1]

\* what the descriptor's locator and index resolve to right now
Resolved == IF LocatorOK THEN _find_element_by(value, index) ELSE NoSuchElementException
Resolves == Resolved.t = "elem"

\* the state of the running call, as one record
Cur ==
  [pc |-> pc, call |-> call, w |-> w, result |-> result, hist |-> hist,
   pe |-> present_element, ve |-> visible_element, ce |-> clickable_element,
   wt |-> wait_timeout, sw |-> swipe, args |-> args,
   contexts |-> contexts, ctx |-> current_context, pwt |-> page_wait_timeout,
   chain |-> _action, done |-> performed, ref |-> ref]

Set(s) ==
  /\ pc' = s.pc
  /\ call' = s.call
  /\ w' = s.w
  /\ result' = s.result
  /\ hist' = s.hist
  /\ present_element' = s.pe
  /\ visible_element' = s.ve
  /\ clickable_element' = s.ce
  /\ wait_timeout' = s.wt
  /\ swipe' = s.sw
  /\ args' = s.args
  /\ contexts' = s.contexts
  /\ current_context' = s.ctx
  /\ page_wait_timeout' = s.pwt
  /\ _action' = s.chain
  /\ performed' = s.done
  /\ ref' = s.ref

NoWait ==
  [kind |-> "none", phase |-> "none", handler |-> FALSE, start |-> 0, slept |-> 0,
   T |-> 0, tmo |-> << >>, rr |-> << >>, present |-> TRUE]

NoCall == [op |-> "none", tmo |-> << >>, rr |-> << >>, present |-> TRUE, stage |-> 0, fresh |-> Unset]
NoResult == [k |-> "none", v |-> Unset, at |-> 0]

\* one action of an ActionChains: what, with which key, on which handle, by which offset
Act(a, k, on, x, y) == [a |-> a, k |-> k, on |-> on, x |-> x, y |-> y]

\* list[start::-1] of Python
ReversedFrom(list, start) ==
  LET n == Len(list)
      from == IF start < 0 THEN (IF start + n < 0 THEN 0 - 1 ELSE start + n)
              ELSE IF start >= n THEN n - 1 ELSE start
  IN [i \in 1..(from + 1) |-> list[from + 2 - i]]

\* Element.hotkey(*value), for keys that are not empty: the actions it stores, the first
\* key_down focused on the handle e
hotkey(keys, e) ==
  <<Act("key_down", keys[1], e.n, 0, 0)>>
  \o [i \in 1..Len(SubSeq(keys, 2, Len(keys) - 1)) |->
        Act("key_down", SubSeq(keys, 2, Len(keys) - 1)[i], 0, 0, 0)]
  \o <<Act("send_keys", keys[Len(keys)], 0, 0, 0)>>
  \o [i \in 1..Len(ReversedFrom(keys, 0 - 2)) |->
        Act("key_up", ReversedFrom(keys, 0 - 2)[i], 0, 0, 0)]

\* what the call has stored in the page's action chain when it returns
Stored(s, k) ==
  IF s.call.op = "hotkey" /\ k = "return"
  THEN s.chain \o hotkey(s.args.pos, s.hist.appliedOn)
  ELSE s.chain

\* the call is over: it returned v (k = "return") or raised v (k = "raise") at time now
Finish(s, k, v, now) ==
  [s EXCEPT !.pc = "idle", !.result = [k |-> k, v |-> v, at |-> now],
            !.w = NoWait, !.chain = Stored(s, k)]

\* a wait_* method returns v to whoever called it
WaitReturn(s, v, now) ==
  IF s.call.op \in Waits THEN Finish(s, "return", v, now)
  ELSE IF s.call.op = "find"
       THEN Finish(s, find(v, s.args.pos).k, find(v, s.args.pos).v, now)
  ELSE [s EXCEPT !.pc = "retry", !.call.fresh = v, !.w = NoWait]

\* the exception e leaves a wait_* method, or the operation applied to a re-located handle
Raise(s, e, now) ==
  IF s.call.op \in Waits THEN Finish(s, "raise", e, now)
  ELSE IF e = TimeoutException /\ s.call.op \in {"clear"} /\ s.call.stage = 1
       THEN [s EXCEPT !.pc = "attempt2", !.call.stage = 2, !.w = NoWait]
       ELSE Finish(s, "raise", e, now)

\* except TimeoutException: if Timeout.reraise(reraise): raise; return False
OnTimeout(s, now) ==
  IF reraise(s.w.rr) THEN Raise(s, TimeoutException, now)
  ELSE WaitReturn(s, PyFalse, now)

\* except ElementReferenceException: self.wait(timeout, StaleElementReferenceException)
\*   .until(<located predicate>(self.locator, self.index), ...)
EnterLocated(s, now) ==
  IF ~LocatorOK THEN Raise([s EXCEPT !.wt = <<wait(s.w.tmo)>>], ValueError, now)
  ELSE [s EXCEPT !.pc = "poll", !.wt = <<wait(s.w.tmo)>>,
                 !.w.phase = "located", !.w.handler = TRUE, !.w.start = now,
                 !.w.slept = 0, !.w.T = wait(s.w.tmo),
                 !.hist.locWaits = @ + 1]

\* the first lines of a wait_* method, up to the first call of until
BeginWait(s, kind, tmo, rr, present, now) ==
  LET s1 == [s EXCEPT !.wt = <<wait(tmo)>>,
                      !.w = [kind |-> kind, phase |-> "cached", handler |-> FALSE,
                             start |-> now, slept |-> 0, T |-> wait(tmo),
                             tmo |-> tmo, rr |-> rr, present |-> present]]
  IN IF kind \in {"present", "absent"}
     THEN IF ~LocatorOK THEN Raise(s1, ValueError, now)
          ELSE [s1 EXCEPT !.pc = "poll", !.w.phase = "located",
                          !.hist.locWaits = @ + 1]
     ELSE IF s.pe = Unset THEN EnterLocated(s1, now)
          ELSE [s1 EXCEPT !.pc = "poll"]

\* an exception leaves until: which except clause of the wait_* method takes it
Propagate(s, e, now) ==
  IF s.w.handler THEN Raise(s, e, now)
  ELSE IF s.w.phase = "cached" /\ e \in ElementReferenceException THEN EnterLocated(s, now)
  ELSE IF e = TimeoutException THEN OnTimeout(s, now)
  ELSE Raise(s, e, now)

\* until returned the truthy value v: the assignments of the wait_* method
Assign(s, v) ==
  LET k == s.w.kind IN
  IF s.w.phase \in {"elements", "page"} THEN s
  ELSE IF s.w.phase = "cached"
  THEN CASE k = "visible" -> [s EXCEPT !.ve = v]
         [] k = "clickable" -> [s EXCEPT !.ve = v, !.ce = v]
         [] OTHER -> s
  ELSE CASE k = "absent" -> s
         [] k = "visible" -> [s EXCEPT !.pe = v, !.ve = v]
         [] k = "clickable" -> [s EXCEPT !.pe = v, !.ve = v, !.ce = v]
         [] OTHER -> [s EXCEPT !.pe = v]

\* until swallows NoSuchElementException alone
Ignored_NoStale(s) == {NoSuchElementException}

\* exceptions until swallows: NoSuchElementException, plus what Element.wait or
\* Elements.wait was given
Ignored(s) ==
  IF s.w.handler \/ (s.w.phase = "elements" /\ s.w.kind # "all_present")
  THEN {NoSuchElementException, StaleElementReferenceException}
  ELSE {NoSuchElementException}

\* one evaluation of the predicate inside until, with its outcome out
AfterPoll(s, out, now) ==
  IF out \in Exceptions
  THEN IF out \in Ignored(s) THEN [s EXCEPT !.pc = "sleep", !.w.slept = 0]
       ELSE Propagate(s, out, now)
  ELSE IF out = PyFalse THEN [s EXCEPT !.pc = "sleep", !.w.slept = 0]
  ELSE WaitReturn(Assign(s, out), out, now)

\* time.sleep(poll) is over: if time.monotonic() > end_time: break
AfterSleep(s, now) ==
  IF now - s.w.start > s.w.T THEN Propagate(s, TimeoutException, now)
  ELSE [s EXCEPT !.pc = "poll"]

\* ---------------------------------------------------------------- bookkeeping
\* what the running call has done so far (history, not program state)
IdleHist ==
  [since |-> << >>, ever |-> FALSE, changes |-> 0, locWaits |-> 0, attempts |-> 0,
   hcalls |-> 0, finds |-> 0, cache0 |-> "none", D0 |-> 0, pres0 |-> PyNone,
   firstErr |-> PyNone, retryErr |-> PyNone, lastFind |-> PyNone, oob |-> FALSE,
   raced |-> FALSE, endResolved |-> PyNone, appliedOn |-> PyNone, refused |-> FALSE,
   searched |-> 0, adjusted |-> 0, chain0 |-> << >>, performed0 |-> << >>,
   swipedInside |-> FALSE]

NewHist(slot) ==
  [IdleHist EXCEPT
   !.since = IF Resolves THEN <<0>> ELSE << >>,  \* since when the element resolves without a break
   !.ever = Resolves,          \* the element resolved at some moment of the call
   !.changes = 0,              \* changes of the tree during the call
   !.locWaits = 0,             \* locator-based waits started
   !.attempts = 0,             \* times the operation was applied to a handle
   !.hcalls = 0,               \* calls made on element handles
   !.finds = 0,                \* find_element / find_elements calls made on the driver
   !.cache0 = IF slot = Unset THEN "none"
              ELSE IF slot.t # "elem" THEN "sentinel"
              ELSE IF Live(slot.n) THEN "valid"
              ELSE "stale",    \* the cache slot the call reads first, when the call started
   !.D0 = DEFAULT,             \* Timeout.DEFAULT when the call started
   !.pres0 = Resolved,         \* what the locator resolved to when the call started
   !.chain0 = _action,         \* the actions stored when the call started
   !.performed0 = performed]   \* the actions performed when the call started
   \* firstErr: what the first application of the operation raised
   \* retryErr: what the application to the re-located handle raised
   \* lastFind: what the last _find_element_by returned
   \* oob: the last _find_element_by indexed outside the match list
   \* raced: the last located node was detached before its state was read
   \* endResolved: what the locator resolved to when the call ended
   \* appliedOn: the handle the operation succeeded on
   \* refused: the driver refused the operation on a valid handle
   \* searched: driver.swipe calls of the search phase of swipe_by
   \* adjusted: driver.swipe calls of the adjusting phase of swipe_by
   \* swipedInside: one of them was made for a border inside the area

NoSwipe == [count |-> 0, i |-> 0, max_swipe |-> 0, max_adjust |-> 0, min_distance |-> 0]
NoArgs == [page |-> 0, of |-> "none", pos |-> << >>]

\* between two calls the test keeps nothing of the last call but the descriptor
Forget ==
  /\ pc' = "idle"
  /\ call' = NoCall
  /\ w' = NoWait
  /\ result' = NoResult
  /\ hist' = IdleHist
  /\ swipe' = NoSwipe
  /\ args' = NoArgs
  /\ clock' = 0
  /\ UNCHANGED app

\* the tree changes at time clock, during a call or between calls
EnvStep ==
  IF pc = "idle" THEN Forget
  ELSE /\ hist.changes < MaxChanges
       /\ UNCHANGED <<pc, call, w, result, clock, swipe, args, app>>
       /\ hist' = [hist EXCEPT !.changes = @ + 1,
                               !.ever = @ \/ Resolves',
                               !.since = IF ~Resolves' THEN << >>
                                         ELSE IF Resolved' = Resolved THEN @ ELSE <<clock>>]

\* no change of the tree is stamped with the time of a poll that has already run
EnvFree == ~(pc = "sleep" /\ w.slept = 0)

\* ---------------------------------------------------------------- the rendered tree
Remove(seq, i) == SubSeq(seq, 1, i - 1) \o SubSeq(seq, i + 1, Len(seq))

\* the states a node is rendered in: <<is_displayed, is_enabled, is_selected>>
Looks == {<<TRUE, TRUE, FALSE>>, <<FALSE, TRUE, FALSE>>, <<TRUE, FALSE, FALSE>>, <<TRUE, TRUE, TRUE>>}

\* a node is rendered in the app of the driver of page p
AppearOn(p, v, look) ==
  /\ EnvFree
  /\ Len(nodes) < MaxNodes
  /\ nextH <= MaxHandles
  /\ nodes' = Append(nodes, [h |-> nextH, val |-> v, disp |-> look[1], enab |-> look[2],
                             sel |-> look[3], drv |-> p])
  /\ nextH' = nextH + 1
  /\ UNCHANGED <<cfg, desc, cache>>
  /\ EnvStep

\* a node is rendered in the app of the one driver there is
Appear(v, look) == AppearOn(1, v, look)

Detach(i) ==
  /\ EnvFree
  /\ i \in 1..Len(nodes)
  /\ nodes' = Remove(nodes, i)
  /\ UNCHANGED <<nextH, cfg, desc, cache>>
  /\ EnvStep

SetState(i, look) ==
  /\ EnvFree
  /\ i \in 1..Len(nodes)
  /\ <<nodes[i].disp, nodes[i].enab, nodes[i].sel>> # look
  /\ nodes' = [nodes EXCEPT ![i].disp = look[1], ![i].enab = look[2], ![i].sel = look[3]]
  /\ UNCHANGED <<nextH, cfg, desc, cache>>
  /\ EnvStep

\* ---------------------------------------------------------------- config
SetDefault(d) ==
  /\ pc = "idle"
  /\ d # DEFAULT
  /\ DEFAULT' = d
  /\ UNCHANGED <<env, RERAISE, desc, cache>>
  /\ Forget

SetReraise(b) ==
  /\ pc = "idle"
  /\ b # RERAISE
  /\ RERAISE' = b
  /\ UNCHANGED <<env, DEFAULT, desc, cache>>
  /\ Forget

\* ---------------------------------------------------------------- Element.wait_*
StartWait(op, tmo, rr, present) ==
  /\ pc = "idle"
  /\ op \in WaitOps
  /\ present = FALSE => op \in {"wait_invisible", "wait_unclickable"}
  /\ clock' = 0
  /\ UNCHANGED <<env, cfg, desc>>
  /\ Set(BeginWait([Cur EXCEPT !.call = [op |-> op, tmo |-> tmo, rr |-> rr, present |-> present,
                                         stage |-> 0, fresh |-> Unset],
                               !.hist = NewHist(present_element), !.result = NoResult],
                   KindOf(op), tmo, rr, present, 0))

\* what the call leaves behind when this step ends it
Closing(s) == IF s.pc = "idle" THEN [s EXCEPT !.hist.endResolved = Resolved'] ELSE s

\* until evaluates the predicate on the cached handle
PollCached ==
  /\ pc = "poll"
  /\ w.phase = "cached"
  /\ UNCHANGED <<env, cfg, desc, clock>>
  /\ Set(Closing(AfterPoll([Cur EXCEPT !.hist.hcalls = @ + (IF present_element.t = "elem" THEN 1 ELSE 0)],
                           ElementPredicate(w.kind, present_element), clock)))

\* the tree after the located node h was detached (and maybe rendered again) mid-poll
Raced(race, h) ==
  CASE race = "none" -> nodes
    [] race = "detach" -> SelectSeq(nodes, LAMBDA nd : nd.h # h)
    [] race = "replace" ->
         [i \in 1..Len(nodes) |-> IF nodes[i].h = h THEN [nodes[i] EXCEPT !.h = nextH] ELSE nodes[i]]

\* until evaluates the predicate that locates the element
PollLocated(race) ==
  /\ pc = "poll"
  /\ w.phase = "located"
  /\ LET f == _find_element_by(value, index) IN
     /\ race # "none" => f.t = "elem" /\ w.kind \notin {"present", "absent"} /\ hist.changes < MaxChanges
     /\ race = "replace" => nextH <= MaxHandles
     /\ nodes' = Raced(race, f.n)
     /\ nextH' = IF race = "replace" THEN nextH + 1 ELSE nextH
     /\ UNCHANGED <<cfg, desc, clock>>
     /\ Set(Closing(AfterPoll(
              [Cur EXCEPT !.hist.finds = @ + 1,
                          !.hist.lastFind = f,
                          !.hist.oob = (index # << >> /\ PyIndex(find_elements(value), index[1]) = IndexError),
                          !.hist.raced = (race # "none"),
                          !.hist.hcalls = @ + (IF f.t = "elem" /\ w.kind \notin {"present", "absent"} THEN 1 ELSE 0),
                          !.hist.changes = @ + (IF race # "none" THEN 1 ELSE 0),
                          !.hist.ever = @ \/ Resolves',
                          !.hist.since = IF ~Resolves' THEN << >>
                                         ELSE IF Resolved' = Resolved THEN @ ELSE <<clock + 1>>],
              LocatedPredicate(w.kind, value, index, w.present, race # "none"), clock)))

\* ---------------------------------------------------------------- Elements.wait_*
\* _find_elements_by: if elements == []: raise NoSuchElementException
_find_elements_by(v) ==
  IF find_elements(v) = << >> THEN NoSuchElementException ELSE ListOf(find_elements(v))

\* the node whose is_displayed() finds it detached is reached: the loop of
\* visibility_of_all_elements_located returns False at the first node not displayed
Reached(kind, found, j) ==
  /\ kind # "all_present"
  /\ kind = "all_visible" => \A i \in 1..(j - 1) : found[i].disp

\* presence_of_all_elements_located, visibility_of_any_elements_located,
\* visibility_of_all_elements_located
\* j: the place in the list of the node detached before its state is read, 0 for none.
\* An empty list is as falsy as False.
ElementsPredicate(kind, v, j) ==
  LET found == find_elements(v) IN
  IF kind = "all_present" THEN IF found = << >> THEN PyFalse ELSE ListOf(found)
  ELSE IF _find_elements_by(v) = NoSuchElementException THEN NoSuchElementException
  ELSE IF kind = "any_visible"
       THEN IF j > 0 THEN StaleElementReferenceException
            ELSE IF SelectSeq(found, LAMBDA nd : nd.disp) = << >> THEN PyFalse
            ELSE ListOf(SelectSeq(found, LAMBDA nd : nd.disp))
       ELSE IF \E i \in 1..Len(found) : ~found[i].disp /\ (j = 0 \/ i < j) THEN PyFalse
            ELSE IF j > 0 THEN StaleElementReferenceException
            ELSE ListOf(found)

\* self.wait(timeout, StaleElementReferenceException).until(<predicate>(self.locator), ...)
StartElementsWait(op, tmo, rr) ==
  /\ pc = "idle"
  /\ cls = "Elements"
  /\ op \in ElementsWaitOps
  /\ clock' = 0
  /\ UNCHANGED <<env, cfg, desc>>
  /\ LET s1 == [Cur EXCEPT !.call = [op |-> op, tmo |-> tmo, rr |-> rr, present |-> TRUE,
                                     stage |-> 0, fresh |-> Unset],
                           !.hist = NewHist(Unset), !.result = NoResult,
                           !.wt = <<wait(tmo)>>,
                           !.w = [kind |-> KindOf(op), phase |-> "elements", handler |-> FALSE,
                                  start |-> 0, slept |-> 0, T |-> wait(tmo),
                                  tmo |-> tmo, rr |-> rr, present |-> TRUE]]
     IN Set(IF ~LocatorOK THEN Raise(s1, ValueError, 0)
            ELSE [s1 EXCEPT !.pc = "poll", !.hist.locWaits = @ + 1])

\* elements.find(index, timeout, reraise), up to the first poll of wait_all_present
StartFind(idx, tmo, rr) ==
  /\ pc = "idle"
  /\ cls = "Elements"
  /\ clock' = 0
  /\ UNCHANGED <<env, cfg, desc>>
  /\ LET s1 == [Cur EXCEPT !.call = [op |-> "find", tmo |-> tmo, rr |-> rr, present |-> TRUE,
                                     stage |-> 0, fresh |-> Unset],
                           !.args = [page |-> _page, of |-> "find", pos |-> idx],
                           !.hist = NewHist(Unset), !.result = NoResult,
                           !.wt = <<wait(tmo)>>,
                           !.w = [kind |-> "all_present", phase |-> "elements", handler |-> FALSE,
                                  start |-> 0, slept |-> 0, T |-> wait(tmo),
                                  tmo |-> tmo, rr |-> rr, present |-> TRUE]]
     IN Set(IF ~LocatorOK THEN Raise(s1, ValueError, 0)
            ELSE [s1 EXCEPT !.pc = "poll", !.hist.locWaits = @ + 1])

\* until evaluates the predicate that locates the elements
PollElements(race, j) ==
  /\ pc = "poll"
  /\ w.phase = "elements"
  /\ LET found == find_elements(value) IN
     /\ (race = "none") = (j = 0)
     /\ j <= Len(found)
     /\ j > 0 => Reached(w.kind, found, j) /\ hist.changes < MaxChanges
     /\ race = "replace" => nextH <= MaxHandles
     /\ nodes' = IF j > 0 THEN Raced(race, found[j].h) ELSE nodes
     /\ nextH' = IF race = "replace" THEN nextH + 1 ELSE nextH
     /\ UNCHANGED <<cfg, desc, clock>>
     /\ Set(Closing(AfterPoll(
              [Cur EXCEPT !.hist.finds = @ + 1,
                          !.hist.lastFind = _find_elements_by(value),
                          !.hist.raced = (j > 0),
                          !.hist.hcalls = @ + Len(found),
                          !.hist.changes = @ + (IF j > 0 THEN 1 ELSE 0),
                          !.hist.ever = @ \/ Resolves',
                          !.hist.since = IF ~Resolves' THEN << >>
                                         ELSE IF Resolved' = Resolved THEN @ ELSE <<clock + 1>>],
              ElementsPredicate(w.kind, value, j), clock)))

\* time.sleep(self._poll), one tick at a time, then the deadline check
Tick ==
  /\ pc = "sleep"
  /\ clock' = clock + 1
  /\ UNCHANGED <<env, cfg, desc>>
  /\ IF w.slept + 1 = PollTicks
     THEN Set(Closing(AfterSleep(Cur, clock + 1)))
     ELSE Set([Cur EXCEPT !.w.slept = @ + 1])

\* ---------------------------------------------------------------- Element operations
SimpleOps == {"is_visible", "get_attribute", "visible_text", "click"}
CompoundOps == {"clear"}
ChainOps == {"action_click", "double_click"}
Ops == SimpleOps \cup CompoundOps \cup ChainOps

\* the cache slot the operation reads, in its first or second try block
SlotOf(op, stage) ==
  CASE op \in {"is_visible", "get_attribute", "hotkey"} \cup ChainOps -> "present"
    [] op = "visible_text" -> "visible"
    [] op = "click" -> "clickable"
    [] op = "clear" -> IF stage = 1 THEN "clickable" ELSE "present"

SlotValue(s, slot) ==
  CASE slot = "present" -> s.pe
    [] slot = "visible" -> s.ve
    [] slot = "clickable" -> s.ce

\* what the operation reads from, or does to, a live node
OpValue(op, nd) ==
  CASE op = "is_visible" -> IF nd.disp THEN PyTrue ELSE PyFalse
    [] op = "get_attribute" -> IF nd.sel THEN PyTrue ELSE PyNone
    [] op = "visible_text" -> PyNone
    [] OTHER -> PyNone

\* return self
Self == [t |-> "self", n |-> 0]

\* what the method hands back once the handle call gave out: `return self` stands after
\* the try statement in click, clear and action_click, inside the except clause in
\* double_click
ReturnOf(op, relocated, out) ==
  CASE op \in {"action_click", "click", "clear", "hotkey"} -> Self
    [] op = "double_click" -> IF relocated THEN Self ELSE PyNone
    [] OTHER -> out

\* e.<op>() on whatever the slot holds; fail: the driver refuses for a reason of its own
ApplyOn(op, e, fail) ==
  IF e.t # "elem" THEN AttributeError
  ELSE IF ~Live(e.n) THEN StaleElementReferenceException
  ELSE IF fail THEN WebDriverException
  ELSE OpValue(op, NodeOf(e.n))

\* try: self._<slot>_element.<op>()  except ElementReferenceException: self.<slot>_element.<op>()
Attempt(s, fail, now) ==
  LET op == s.call.op
      e == SlotValue(s, SlotOf(op, s.call.stage))
      out == ApplyOn(op, e, fail)
      s1 == [s EXCEPT !.hist.attempts = @ + 1,
                      !.hist.hcalls = @ + (IF e.t = "elem" THEN 1 ELSE 0),
                      !.hist.firstErr = IF s.call.stage = 1 /\ out \in Exceptions THEN out ELSE @,
                      !.hist.appliedOn = IF out \in Exceptions THEN @ ELSE e,
                      !.hist.refused = @ \/ out = WebDriverException]
  IN IF out \notin Exceptions THEN Finish(s1, "return", ReturnOf(op, FALSE, out), now)
     ELSE IF out \in ElementReferenceException
          THEN BeginWait(s1, SlotOf(op, s.call.stage), << >>, <<TRUE>>, TRUE, now)
          ELSE Raise(s1, out, now)

StartOp(op, fail) ==
  /\ pc = "idle"
  /\ op \in Ops
  /\ clock' = 0
  /\ UNCHANGED <<env, cfg, desc>>
  /\ Set(Closing(Attempt(
           [Cur EXCEPT !.call = [op |-> op, tmo |-> << >>, rr |-> <<TRUE>>, present |-> TRUE,
                                 stage |-> 1, fresh |-> Unset],
                       !.hist = NewHist(SlotValue(Cur, SlotOf(op, 1))), !.result = NoResult],
           fail, 0)))

\* page.elem.hotkey(*keys), up to the return or to the first poll of the fallback wait
StartHotkey(keys) ==
  /\ pc = "idle"
  /\ Len(_action) + 2 * Len(keys) <= 2 * MaxKeys
  /\ clock' = 0
  /\ UNCHANGED <<env, cfg, desc>>
  /\ LET s0 == [Cur EXCEPT !.call = [op |-> "hotkey", tmo |-> << >>, rr |-> <<TRUE>>,
                                     present |-> TRUE, stage |-> 1, fresh |-> Unset],
                           !.args = [page |-> _page, of |-> "hotkey", pos |-> keys],
                           !.hist = NewHist(present_element), !.result = NoResult]
     IN Set(Closing(IF keys = << >> THEN Raise(s0, IndexError, 0) ELSE Attempt(s0, FALSE, 0)))

\* a retry that re-locates once more when the re-located handle is stale
Retry_Again(fail) ==
  /\ pc = "retry"
  /\ UNCHANGED <<env, cfg, desc, clock>>
  /\ LET out == ApplyOn(call.op, call.fresh, fail)
         s1 == [Cur EXCEPT !.hist.attempts = @ + 1,
                           !.hist.hcalls = @ + 1,
                           !.hist.retryErr = IF out \in Exceptions THEN out ELSE @,
                           !.hist.appliedOn = IF out \in Exceptions THEN @ ELSE call.fresh,
                           !.hist.refused = @ \/ out = WebDriverException]
     IN Set(Closing(IF out = StaleElementReferenceException
                    THEN BeginWait(s1, "present", << >>, <<TRUE>>, TRUE, clock)
                    ELSE IF out \in Exceptions THEN Raise(s1, out, clock)
                    ELSE Finish(s1, "return", ReturnOf(call.op, TRUE, out), clock)))

\* the operation on the handle the fallback wait returned
Retry(fail) ==
  /\ pc = "retry"
  /\ UNCHANGED <<env, cfg, desc, clock>>
  /\ LET out == ApplyOn(call.op, call.fresh, fail)
         s1 == [Cur EXCEPT !.hist.attempts = @ + 1,
                           !.hist.hcalls = @ + 1,
                           !.hist.retryErr = IF out \in Exceptions THEN out ELSE @,
                           !.hist.appliedOn = IF out \in Exceptions THEN @ ELSE call.fresh,
                           !.hist.refused = @ \/ out = WebDriverException]
     IN Set(Closing(IF out \in Exceptions THEN Raise(s1, out, clock)
                    ELSE Finish(s1, "return", ReturnOf(call.op, TRUE, out), clock)))

\* clear, send_keys, submit: except TimeoutException: the same on the present element
Attempt2(fail) ==
  /\ pc = "attempt2"
  /\ UNCHANGED <<env, cfg, desc, clock>>
  /\ Set(Closing(Attempt(Cur, fail, clock)))

\* Element.__set__: page.attr = (by, value, index, timeout) runs __init__ again
Reassign(b, v, idx, tmo) ==
  /\ pc = "idle"
  /\ <<b, v, idx, tmo>> # <<by, value, index, timeout>>
  /\ by' = b
  /\ value' = v
  /\ index' = idx
  /\ timeout' = tmo
  /\ remark' = default_remark(v, idx)
  /\ UNCHANGED <<env, cfg, cache, cls, _page>>
  /\ Forget

\* ---------------------------------------------------------------- Element.swipe_by
\* the swipeable area and the borders the driver may report for the element
Area == [left |-> 0, top |-> 0, width |-> 2, height |-> 2]
Borders ==
  {[left |-> l, right |-> l + wd, top |-> t, bottom |-> t + ht] :
     l \in (0 - 1)..1, wd \in {1, 3}, t \in (0 - 1)..1, ht \in {1, 3}}

Abs(x) == IF x < 0 THEN 0 - x ELSE x

\* int(math.copysign(min_distance, delta)) if abs(delta) < min_distance else delta
get_final_delta(min_distance, delta) ==
  IF Abs(delta) < min_distance
  THEN IF delta >= 0 THEN min_distance ELSE 0 - min_distance
  ELSE delta

\* adjust = (adjust_left, adjust_right, adjust_top, adjust_bottom)
adjust(border, min_distance) ==
  <<get_final_delta(min_distance, Area.left - border.left) > 0,
    get_final_delta(min_distance, (Area.left + Area.width) - border.right) < 0,
    get_final_delta(min_distance, Area.top - border.top) > 0,
    get_final_delta(min_distance, (Area.top + Area.height) - border.bottom) < 0>>

\* the keys of adjust_actions
adjust_actions ==
  {<<TRUE, FALSE, TRUE, FALSE>>, <<FALSE, FALSE, TRUE, FALSE>>, <<FALSE, TRUE, TRUE, FALSE>>,
   <<TRUE, FALSE, FALSE, FALSE>>, <<FALSE, TRUE, FALSE, FALSE>>,
   <<TRUE, FALSE, FALSE, TRUE>>, <<FALSE, FALSE, FALSE, TRUE>>, <<FALSE, TRUE, FALSE, TRUE>>}

\* an adjusting loop that never sees its maximum
AdjustEnd_Never(i, max_adjust) == FALSE

\* if i == max_adjust + 1: return True
AdjustEnd(i, max_adjust) == i = max_adjust + 1

\* is_viewable: element = self.wait_present(timeout, False)
is_viewable(s, now) == BeginWait(s, "present", s.call.tmo, <<FALSE>>, TRUE, now)

\* the tree after a swipe that may bring the element into view
Shown(shown) ==
  IF ~shown THEN nodes
  ELSE IF Len(nodes) = 0
       THEN IF nextH <= MaxHandles
            THEN <<[h |-> nextH, val |-> value, disp |-> TRUE, enab |-> TRUE, sel |-> FALSE,
                    drv |-> _page]>>
            ELSE nodes
       ELSE [nodes EXCEPT ![1].disp = TRUE]

\* swipe_by(timeout=tmo, max_swipe=ms, max_adjust=ma, min_distance=md), up to the first is_viewable
StartSwipe(tmo, ms, ma, md) ==
  /\ pc = "idle"
  /\ clock' = 0
  /\ UNCHANGED <<env, cfg, desc>>
  /\ Set(Closing(is_viewable(
           [Cur EXCEPT !.call = [op |-> "swipe_by", tmo |-> <<tmo>>, rr |-> <<FALSE>>,
                                 present |-> TRUE, stage |-> 1, fresh |-> Unset],
                       !.hist = NewHist(present_element), !.result = NoResult,
                       !.sw = [count |-> 0, i |-> 0, max_swipe |-> ms, max_adjust |-> ma,
                               min_distance |-> md]],
           0)))

\* __start_swiping_by: one turn of `while not self.is_viewable(timeout)`, from the return
\* of wait_present to the next is_viewable or to the adjusting loop
Swiping(shown) ==
  /\ pc = "retry"
  /\ call.op = "swipe_by"
  /\ call.stage = 1
  /\ UNCHANGED <<cfg, desc, clock>>
  /\ LET viewable == IF call.fresh = PyFalse THEN PyFalse
                     ELSE ApplyOn("is_visible", call.fresh, FALSE)
         s1 == [Cur EXCEPT !.hist.hcalls = @ + (IF call.fresh.t = "elem" THEN 1 ELSE 0)]
     IN IF viewable \in Exceptions
        THEN /\ UNCHANGED env
             /\ Set(Closing(Raise(s1, viewable, clock)))
        ELSE IF viewable = PyTrue
        THEN /\ UNCHANGED env
             /\ Set(Closing(IF swipe.max_adjust + 2 <= 1 THEN Finish(s1, "return", Self, clock)
                            ELSE [s1 EXCEPT !.pc = "adjust", !.call.stage = 2, !.sw.i = 1]))
        ELSE /\ swipe.count <= MaxSwipe
             /\ nodes' = Shown(shown)
             /\ nextH' = IF Len(Shown(shown)) > Len(nodes) THEN nextH + 1 ELSE nextH
             /\ Set(Closing(is_viewable(
                      [s1 EXCEPT !.sw.count = @ + 1,
                                 !.hist.searched = @ + 1,
                                 !.hist.ever = @ \/ Resolves',
                                 !.hist.since = IF ~Resolves' THEN << >>
                                                ELSE IF Resolved' = Resolved THEN @ ELSE <<clock>>],
                      clock)))

\* the four borders lie within the area, boundaries included
Inside(border) ==
  /\ border.left >= Area.left
  /\ border.right <= Area.left + Area.width
  /\ border.top >= Area.top
  /\ border.bottom <= Area.top + Area.height

\* __start_adjusting_by: one turn of `for i in range(1, max_adjust + 2)`, with the
\* border the driver reports for the element
Adjusting(border) ==
  /\ \/ pc = "adjust"
     \/ pc = "retry" /\ call.op = "swipe_by" /\ call.stage = 2
  /\ UNCHANGED <<env, cfg, desc, clock>>
  /\ LET e == IF pc = "adjust" THEN present_element ELSE call.fresh
         rect == ApplyOn("rect", e, FALSE)
         s1 == [Cur EXCEPT !.hist.hcalls = @ + (IF e.t = "elem" THEN 1 ELSE 0)]
     IN Set(Closing(
          IF rect \in Exceptions
          THEN IF pc = "adjust" /\ rect \in ElementReferenceException
               THEN BeginWait(s1, "present", << >>, <<TRUE>>, TRUE, clock)
               ELSE Raise(s1, rect, clock)
          ELSE IF adjust(border, swipe.min_distance) \notin adjust_actions
               THEN Finish(s1, "return", Self, clock)
          ELSE IF AdjustEnd(swipe.i, swipe.max_adjust)
               THEN Finish(s1, "return", Self, clock)
          ELSE IF swipe.i + 1 >= swipe.max_adjust + 2
               THEN Finish([s1 EXCEPT !.hist.adjusted = @ + 1,
                                      !.hist.swipedInside = @ \/ Inside(border)],
                           "return", Self, clock)
          ELSE [s1 EXCEPT !.pc = "adjust", !.sw.i = @ + 1, !.hist.adjusted = @ + 1,
                          !.hist.swipedInside = @ \/ Inside(border)]))

\* ---------------------------------------------------------------- Element.__init__, Elements.__init__
\* Python values given as positional arguments
RawNone == <<"None">>
RawInt(k) == <<"int", k>>
RawFloat(text) == <<"float", text>>
RawStr(x) == <<"str", x>>

\* str(a)
str(a) ==
  CASE a[1] = "None" -> "None"
    [] a[1] = "int" -> ToString(a[2])
    [] OTHER -> a[2]

\* isinstance(a, types)
isinstance(a, types) == a[1] \in types

\* By.ID, By.XPATH, ...: ByAttribute.VALUES
ByValues == {"id", "xpath"}

\* the k-th positional argument, None when it is not given
Arg(a, k) == IF Len(a) >= k THEN a[k] ELSE RawNone

\* an argument as the descriptor keeps it: by and value as text, index and timeout as options
Text(a) == str(a)
Norm(a) == IF a = RawNone THEN << >> ELSE IF a[1] = "int" THEN <<a[2]>> ELSE <<a>>

\* the checks on (by, value); fresh: self.value does not exist yet, so the message of
\* the TypeError cannot be built
InitError(a, fresh) ==
  IF ~(Arg(a, 1) = RawNone \/ (Arg(a, 1)[1] = "str" /\ Arg(a, 1)[2] \in ByValues)) THEN ValueError
  ELSE IF ~isinstance(Arg(a, 2), {"str", "None"})
       THEN IF fresh THEN AttributeError ELSE TypeError
       ELSE PyNone

\* Element.__init__(by, value, index, timeout, remark)
ElementInit(a, fresh) ==
  LET idx == Arg(a, 3)
      tmo == Arg(a, 4)
      r1 == IF ~isinstance(idx, {"int", "None"}) THEN RawStr(str(idx)) ELSE Arg(a, 5)
      i1 == IF ~isinstance(idx, {"int", "None"}) THEN RawNone ELSE idx
      r2 == IF ~isinstance(tmo, {"int", "float", "None"}) THEN RawStr(str(tmo)) ELSE r1
      t1 == IF ~isinstance(tmo, {"int", "float", "None"}) THEN RawNone ELSE tmo
  IN [exc |-> InitError(a, fresh), by |-> Text(Arg(a, 1)), value |-> Text(Arg(a, 2)),
      index |-> Norm(i1), timeout |-> Norm(t1),
      remark |-> IF r2 = RawNone THEN default_remark(Text(Arg(a, 2)), Norm(i1)) ELSE r2]

\* Elements.__init__(by, value, timeout, remark)
ElementsInit(a, fresh) ==
  LET tmo == Arg(a, 3)
      r1 == IF ~isinstance(tmo, {"int", "float", "None"}) THEN RawStr(str(tmo)) ELSE Arg(a, 4)
      t1 == IF ~isinstance(tmo, {"int", "float", "None"}) THEN RawNone ELSE tmo
  IN [exc |-> InitError(a, fresh), by |-> Text(Arg(a, 1)), value |-> Text(Arg(a, 2)),
      index |-> << >>, timeout |-> Norm(t1),
      remark |-> IF r1 = RawNone THEN Arg(a, 2) ELSE r1]

Classes == {"Element", "Elements"}
Pages == 1..MaxPages

\* Page._driver of page p
DriverOf(p) == <<"driver", p>>

\* Element.driver: self._page._driver
driver == IF _page = 0 THEN AttributeError ELSE DriverOf(_page)

\* a __get__ that leaves the binding as it is
__get___Keep(p) == _page

\* __get__(instance, owner): self._page = instance; return self
__get__(p) == p

\* a new descriptor object takes the place of the old one: r is what __init__ computed
NewDescriptor(c, r, p) ==
  /\ by' = r.by
  /\ value' = r.value
  /\ index' = r.index
  /\ timeout' = r.timeout
  /\ remark' = r.remark
  /\ cls' = c
  /\ _page' = p
  /\ present_element' = Unset
  /\ visible_element' = Unset
  /\ clickable_element' = Unset
  /\ wait_timeout' = << >>

\* the call named op ended at once with outcome out
Immediate(op, out) ==
  /\ pc' = "idle"
  /\ call' = [NoCall EXCEPT !.op = op]
  /\ w' = NoWait
  /\ result' = [k |-> IF out \in Exceptions THEN "raise" ELSE "return", v |-> out, at |-> 0]
  /\ hist' = IdleHist
  /\ swipe' = NoSwipe
  /\ clock' = 0
  /\ UNCHANGED app

\* attr = Element(*a) or attr = Elements(*a) in the body of a page class
Construct(c, a) ==
  /\ pc = "idle"
  /\ c \in Classes
  /\ LET r == IF c = "Element" THEN ElementInit(a, TRUE) ELSE ElementsInit(a, TRUE) IN
     /\ IF r.exc = PyNone THEN NewDescriptor(c, r, 0) ELSE UNCHANGED <<desc, cache>>
     /\ Immediate("__init__", IF r.exc = PyNone THEN Self ELSE r.exc)
  /\ args' = [page |-> 0, of |-> c, pos |-> a]
  /\ UNCHANGED <<env, cfg>>

\* page.attr: the descriptor is read through page p
Get(p) ==
  /\ pc = "idle"
  /\ _page # p
  /\ _page' = __get__(p)
  /\ UNCHANGED <<env, cfg, by, value, index, timeout, remark, cls, cache>>
  /\ Forget

\* ref = page.attr: the test reads the descriptor through page p and keeps what it got
Take(p) ==
  /\ pc = "idle"
  /\ ref # p
  /\ _page' = __get__(p)
  /\ clock' = 0
  /\ UNCHANGED <<env, cfg, by, value, index, timeout, remark, cls>>
  /\ Set([Cur EXCEPT !.ref = p, !.call = NoCall, !.w = NoWait, !.result = NoResult,
                     !.hist = IdleHist, !.sw = NoSwipe, !.args = NoArgs])

\* decorator.dynamic: page p calls a method decorated with @dynamic whose body returns
\* Element(*a), Elements(*a), or (c = "other") something that is neither
Dynamic(p, c, a) ==
  /\ pc = "idle"
  /\ LET r == IF c = "Element" THEN ElementInit(a, TRUE) ELSE ElementsInit(a, TRUE) IN
     IF c \notin Classes
     THEN /\ UNCHANGED <<desc, cache>>
          /\ Immediate("dynamic", TypeError)
     ELSE IF r.exc # PyNone
     THEN /\ UNCHANGED <<desc, cache>>
          /\ Immediate("dynamic", r.exc)
     ELSE /\ NewDescriptor(c, r, __get__(p))
          /\ Immediate("dynamic", Self)
  /\ args' = [page |-> p, of |-> c, pos |-> a]
  /\ UNCHANGED <<env, cfg>>

\* ---------------------------------------------------------------- Page.switch_to_webview
Webviews == {"WEBVIEW_" \o ToString(i) : i \in 1..MaxWebviews}
ContextNames == {"NATIVE_APP"} \cup Webviews

\* 'WEBVIEW' in context, for the names above
IsWebview(context) == context \in Webviews

\* the lists driver.contexts can be: the native context and some webviews, in any order
ContextLists ==
  {cs \in UNION {[1..n -> ContextNames] : n \in 1..(MaxWebviews + 1)} :
     /\ \A i, k \in 1..Len(cs) : cs[i] = cs[k] => i = k
     /\ \E i \in 1..Len(cs) : cs[i] = "NATIVE_APP"}

\* the value of a list of contexts returned to the test
ContextsValue == [t |-> "contexts", n |-> 0]

\* context = contexts[index]
Picked(idx) ==
  IF OutOfRange(contexts, idx) THEN << >> ELSE <<At(contexts, idx)>>

\* webview_is_present(switch, index)._predicate: what it returns or raises (out), and
\* the current context it leaves (context)
webview_is_present(switch, idx) ==
  IF \E i \in 1..Len(contexts) : IsWebview(contexts[i])
  THEN IF switch
       THEN IF Picked(idx) = << >>
            THEN [out |-> IndexError, context |-> current_context]
            ELSE [out |-> ContextsValue, context |-> Picked(idx)[1]]
       ELSE [out |-> ContextsValue, context |-> current_context]
  ELSE [out |-> PyFalse, context |-> current_context]

\* Page.wait: self._wait_timeout = Timeout.DEFAULT if timeout is None else timeout
page_wait(tmo) == IF tmo = << >> THEN DEFAULT ELSE tmo[1]

\* the app opens or closes webviews, or lists its contexts in another order
SetContexts(cs) ==
  /\ EnvFree
  /\ cs \in ContextLists
  /\ cs # contexts
  /\ pc # "idle" => hist.changes < MaxChanges
  /\ clock' = IF pc = "idle" THEN 0 ELSE clock
  /\ UNCHANGED <<env, cfg, desc>>
  /\ Set(IF pc = "idle"
         THEN [Cur EXCEPT !.contexts = cs, !.call = NoCall, !.w = NoWait, !.result = NoResult,
                          !.hist = IdleHist, !.sw = NoSwipe, !.args = NoArgs]
         ELSE [Cur EXCEPT !.contexts = cs, !.hist.changes = @ + 1])

\* page.switch_to_webview(switch, index, timeout, reraise), up to the first poll of until
switch_to_webview(switch, idx, tmo, rr) ==
  /\ pc = "idle"
  /\ _page # 0
  /\ clock' = 0
  /\ UNCHANGED <<env, cfg, desc>>
  /\ Set([Cur EXCEPT !.pc = "poll",
                     !.call = [op |-> "switch_to_webview", tmo |-> tmo, rr |-> rr,
                               present |-> TRUE, stage |-> 0, fresh |-> Unset],
                     !.args = [page |-> _page, of |-> "switch_to_webview", pos |-> <<switch, idx>>],
                     !.hist = NewHist(Unset), !.result = NoResult,
                     !.pwt = <<page_wait(tmo)>>,
                     !.w = [kind |-> "webview", phase |-> "page", handler |-> FALSE,
                            start |-> 0, slept |-> 0, T |-> page_wait(tmo),
                            tmo |-> tmo, rr |-> rr, present |-> TRUE]])

\* until evaluates the predicate of webview_is_present
PollWebview ==
  /\ pc = "poll"
  /\ w.phase = "page"
  /\ UNCHANGED <<env, cfg, desc, clock>>
  /\ LET r == webview_is_present(args.pos[1], args.pos[2]) IN
     Set(Closing(AfterPoll([Cur EXCEPT !.ctx = r.context], r.out, clock)))

\* ---------------------------------------------------------------- Page action chains
\* the methods the body of class Page defines, in the order of the source, with the
\* line of each def
PageDefs ==
  <<[name |-> "perform", line |-> 519], [name |-> "reset_actions", line |-> 534],
    [name |-> "click", line |-> 549], [name |-> "move_by_offset", line |-> 604],
    [name |-> "move_by_offset", line |-> 1306]>>

\* the def a name is bound to once the class body has run: the last one
Bound(name) ==
  PageDefs[CHOOSE i \in 1..Len(PageDefs) :
             PageDefs[i].name = name /\ \A k \in (i + 1)..Len(PageDefs) : PageDefs[k].name # name].line

\* return self, of a Page method
PageValue(p) == [t |-> "page", n |-> p]

\* the body of the def at line, called with (xoffset, yoffset): the chain and the
\* performed actions it leaves, and what it returns
PageBody(line, x, y) ==
  CASE line = 519 -> [chain |-> _action, done |-> performed \o _action, out |-> PyNone]
    [] line = 534 -> [chain |-> << >>, done |-> performed, out |-> PyNone]
    [] line = 549 -> [chain |-> Append(_action, Act("click", "", 0, 0, 0)), done |-> performed,
                      out |-> PageValue(_page)]
    [] line = 604 -> [chain |-> Append(_action, Act("move_by_offset", "", 0, x, y)),
                      done |-> performed, out |-> PageValue(_page)]
    [] line = 1306 -> [chain |-> _action,
                       done |-> Append(performed, Act("move_by_offset", "", 0, x, y)),
                       out |-> PyNone]

\* page.<name>(x, y)
PageCall(name, x, y) ==
  /\ pc = "idle"
  /\ _page # 0
  /\ LET r == PageBody(Bound(name), x, y) IN
     /\ Len(r.chain) <= MaxQueue
     /\ Len(r.done) <= MaxQueue
     /\ clock' = 0
     /\ UNCHANGED <<env, cfg, desc>>
     /\ Set([Cur EXCEPT !.call = [NoCall EXCEPT !.op = name],
                        !.args = [page |-> _page, of |-> name, pos |-> <<x, y>>],
                        !.hist = NewHist(Unset),
                        !.result = [k |-> "return", v |-> r.out, at |-> 0],
                        !.w = NoWait, !.sw = NoSwipe,
                        !.chain = r.chain, !.done = r.done])

\* ---------------------------------------------------------------- specifications
Timeouts == 0..MaxTimeout
Races == {"none", "detach", "replace"}
Indexes == {0, 1, 0 - 1, 0 - 2}

InitControl ==
  /\ nodes = << >>
  /\ nextH = 1
  /\ present_element = Unset
  /\ visible_element = Unset
  /\ clickable_element = Unset
  /\ wait_timeout = << >>
  /\ pc = "idle"
  /\ call = NoCall
  /\ w = NoWait
  /\ clock = 0
  /\ result = NoResult
  /\ hist = IdleHist
  /\ swipe = NoSwipe
  /\ args = NoArgs
  /\ contexts = <<"NATIVE_APP">>
  /\ current_context = "NATIVE_APP"
  /\ page_wait_timeout = << >>
  /\ _action = << >>
  /\ performed = << >>
  /\ ref = 0

InitDescriptor ==
  /\ InitControl
  /\ cls = "Element"
  /\ _page = 1

\* the wait methods of one descriptor, under both timeout policies
Init ==
  /\ InitDescriptor
  /\ DEFAULT = PollTicks
  /\ RERAISE \in BOOLEAN
  /\ by = "id"
  /\ value = "a"
  /\ index = << >>
  /\ timeout = << >>
  /\ remark = default_remark(value, index)

Environment ==
  \/ \E look \in Looks : Appear("a", look)
  \/ \E i \in 1..MaxNodes : Detach(i)
  \/ \E i \in 1..MaxNodes : \E look \in Looks : SetState(i, look)

Next ==
  \/ Environment
  \/ \E op \in WaitOps, rr \in Opt(BOOLEAN), p \in BOOLEAN : StartWait(op, << >>, rr, p)
  \/ PollCached
  \/ \E race \in Races : PollLocated(race)
  \/ Tick

Spec == Init /\ [][Next]_vars

\* the waits that locate before they read a state, of an Element and of an Elements
InitLocated ==
  /\ InitControl
  /\ cls \in Classes
  /\ _page = 1
  /\ DEFAULT = PollTicks
  /\ RERAISE \in BOOLEAN
  /\ by = "id"
  /\ value = "a"
  /\ index = << >>
  /\ timeout = << >>
  /\ remark = default_remark(value, index)

LocatedOps ==
  {"wait_visible", "wait_invisible", "wait_clickable", "wait_unclickable",
   "wait_selected", "wait_unselected"}

NextLocated ==
  \/ Environment
  \/ \E op \in LocatedOps, rr \in Opt(BOOLEAN), p \in BOOLEAN :
       cls = "Element" /\ StartWait(op, << >>, rr, p)
  \/ \E op \in ElementsWaitOps, rr \in Opt(BOOLEAN) : StartElementsWait(op, << >>, rr)
  \/ PollCached
  \/ \E race \in Races : PollLocated(race)
  \/ \E race \in Races, j \in 0..MaxNodes : PollElements(race, j)
  \/ Tick

SpecLocated == InitLocated /\ [][NextLocated]_vars

\* Elements.find on a list of up to MaxNodes nodes
InitFind ==
  /\ InitControl
  /\ cls = "Elements"
  /\ _page = 1
  /\ DEFAULT = PollTicks
  /\ RERAISE \in BOOLEAN
  /\ by = "id"
  /\ value = "a"
  /\ index = << >>
  /\ timeout = << >>
  /\ remark = default_remark(value, index)

NextFind ==
  \/ Environment
  \/ \E idx \in Opt(Indexes), tmo \in Opt({0}), rr \in Opt(BOOLEAN) : StartFind(idx, tmo, rr)
  \/ PollElements("none", 0)
  \/ Tick

SpecFind == InitFind /\ [][NextFind]_vars

\* one descriptor that the page points at one of two locators, as a dynamic element
Values == {"a", "b"}

InitSet ==
  /\ InitDescriptor
  /\ DEFAULT = 0
  /\ RERAISE = TRUE
  /\ by = "id"
  /\ value = "a"
  /\ index = << >>
  /\ timeout = << >>
  /\ remark = default_remark(value, index)

NextSet ==
  \/ \E v \in Values : Appear(v, <<TRUE, TRUE, FALSE>>)
  \/ \E i \in 1..MaxNodes : Detach(i)
  \/ \E op \in SimpleOps : StartOp(op, FALSE)
  \/ Retry(FALSE)
  \/ \E v \in Values : Reassign("id", v, << >>, << >>)
  \/ PollCached
  \/ PollLocated("none")
  \/ Tick

SpecSet == InitSet /\ [][NextSet]_vars

\* one descriptor of a page class with MaxPages instances, each with its own driver
NextPages ==
  \/ \E p \in Pages : AppearOn(p, "a", <<TRUE, TRUE, FALSE>>)
  \/ \E i \in 1..MaxNodes : Detach(i)
  \/ \E p \in Pages : Take(p)
  \/ \E p \in Pages : Get(p)
  \/ \E op \in {"is_visible", "visible_text"} : ref # 0 /\ StartOp(op, FALSE)
  \/ Retry(FALSE)
  \/ PollCached
  \/ PollLocated("none")
  \/ Tick

SpecPages == InitSet /\ [][NextPages]_vars

\* hotkeys of up to MaxKeys keys sent to one element
Keys == {"ctrl", "shift", "c"}
KeyLists == UNION {[1..n -> Keys] : n \in 0..MaxKeys}

NextHotkey ==
  \/ Appear("a", <<TRUE, TRUE, FALSE>>)
  \/ \E i \in 1..MaxNodes : Detach(i)
  \/ \E keys \in KeyLists : StartHotkey(keys)
  \/ Retry(FALSE)
  \/ PollLocated("none")
  \/ Tick
  \/ PageCall("reset_actions", 0, 0)

SpecHotkey == InitSet /\ [][NextHotkey]_vars

\* the action chain of one page
Offsets == {0, 1}

NextActions ==
  \/ \E name \in {"click", "perform", "reset_actions"} : PageCall(name, 0, 0)
  \/ \E x \in Offsets, y \in Offsets : PageCall("move_by_offset", x, y)

SpecActions == Init /\ [][NextActions]_vars

\* a page of an app with webviews, under both timeout policies
ContextIndexes == {0 - 1, 0, 1, MaxWebviews + 1}

NextWebview ==
  \/ \E cs \in ContextLists : SetContexts(cs)
  \/ \E switch \in BOOLEAN, i \in ContextIndexes, tmo \in Opt({0}), rr \in Opt(BOOLEAN) :
       switch_to_webview(switch, i, tmo, rr)
  \/ PollWebview
  \/ Tick

SpecWebview == Init /\ [][NextWebview]_vars

\* the operations of one descriptor whose locator the page may reassign
InitOps ==
  /\ InitDescriptor
  /\ DEFAULT = 0
  /\ RERAISE = TRUE
  /\ by = "id"
  /\ value \in {"a", "None"}
  /\ index = << >>
  /\ timeout = << >>
  /\ remark = default_remark(value, index)

NextOps ==
  \/ Environment
  \/ \E op \in SimpleOps \cup CompoundOps, fail \in BOOLEAN : StartOp(op, fail)
  \/ \E op \in {"wait_present", "wait_visible"} : StartWait(op, << >>, << >>, TRUE)
  \/ \E fail \in BOOLEAN : Retry(fail)
  \/ \E fail \in BOOLEAN : Attempt2(fail)
  \/ \E v \in {"a", "None"} : Reassign("id", v, << >>, << >>)
  \/ PollCached
  \/ \E race \in Races : PollLocated(race)
  \/ Tick

SpecOps == InitOps /\ [][NextOps]_vars

\* wait_present and wait_visible against the clock, with every source of the timeout
InitTimed ==
  /\ InitDescriptor
  /\ DEFAULT = MaxTimeout
  /\ RERAISE \in BOOLEAN
  /\ by = "id"
  /\ value = "a"
  /\ index = << >>
  /\ timeout \in Opt({0})
  /\ remark = default_remark(value, index)

NextTimed ==
  \/ Appear("a", <<TRUE, TRUE, FALSE>>)
  \/ \E i \in 1..MaxNodes : Detach(i)
  \/ \E d \in {MaxTimeout - 1, MaxTimeout} : SetDefault(d)
  \/ \E op \in {"wait_present", "wait_visible"}, tmo \in Opt(Timeouts), rr \in Opt(BOOLEAN) :
       StartWait(op, tmo, rr, TRUE)
  \/ PollCached
  \/ \E race \in Races : PollLocated(race)
  \/ Tick

SpecTimed == InitTimed /\ [][NextTimed]_vars

\* waits of a descriptor that selects find_elements(locator)[index]

InitIndexed ==
  /\ InitDescriptor
  /\ DEFAULT = 0
  /\ RERAISE \in BOOLEAN
  /\ by = "id"
  /\ value = "a"
  /\ index \in Opt(Indexes)
  /\ timeout = << >>
  /\ remark = default_remark(value, index)

NextIndexed ==
  \/ \E look \in {<<TRUE, TRUE, FALSE>>, <<FALSE, TRUE, FALSE>>} : Appear("a", look)
  \/ \E i \in 1..MaxNodes : Detach(i)
  \/ \E op \in {"wait_present", "wait_absent", "wait_visible", "wait_invisible"}, p \in BOOLEAN :
       StartWait(op, << >>, << >>, p)
  \/ PollCached
  \/ \E race \in Races : PollLocated(race)
  \/ Tick

SpecIndexed == InitIndexed /\ [][NextIndexed]_vars

\* the action-chain builders of one descriptor
NextChain ==
  \/ Environment
  \/ \E op \in ChainOps, fail \in BOOLEAN : StartOp(op, fail)
  \/ \E fail \in BOOLEAN : Retry(fail)
  \/ PollLocated("none")
  \/ Tick

SpecChain == InitOps /\ [][NextChain]_vars

\* descriptors as page classes declare them and as @dynamic methods build them
ByArgs == {RawNone, RawStr("id")}
ValueArgs == {RawNone, RawStr("a")}
IndexArgs == {RawNone, RawInt(0 - 1), RawStr("r3"), RawFloat("1.5")}
TimeoutArgs == {RawNone, RawInt(9), RawStr("r4")}
RemarkArgs == {RawNone, RawStr("r5")}

\* arguments the checks on by and value refuse
BadArgs == {<<RawStr("bogus")>>, <<RawStr("id"), RawInt(7)>>}

ElementArgs ==
  BadArgs \cup {<< >>} \cup {<<b>> : b \in ByArgs} \cup {<<b, v>> : b \in ByArgs, v \in ValueArgs}
  \cup {<<b, v, i>> : b \in ByArgs, v \in ValueArgs, i \in IndexArgs}
  \cup {<<b, v, i, t>> : b \in ByArgs, v \in ValueArgs, i \in IndexArgs, t \in TimeoutArgs}
  \cup {<<b, v, i, t, r>> : b \in ByArgs, v \in ValueArgs, i \in IndexArgs, t \in TimeoutArgs,
                            r \in RemarkArgs}

ElementsArgs ==
  BadArgs \cup {<< >>} \cup {<<b>> : b \in ByArgs} \cup {<<b, v>> : b \in ByArgs, v \in ValueArgs}
  \cup {<<b, v, t>> : b \in ByArgs, v \in ValueArgs, t \in TimeoutArgs}
  \cup {<<b, v, t, r>> : b \in ByArgs, v \in ValueArgs, t \in TimeoutArgs, r \in RemarkArgs}

ArgsOf(c) ==
  CASE c = "Element" -> ElementArgs
    [] c = "Elements" -> ElementsArgs
    [] OTHER -> {<< >>}

InitPage ==
  /\ InitDescriptor
  /\ DEFAULT = MaxTimeout
  /\ RERAISE = TRUE
  /\ by = "None"
  /\ value = "None"
  /\ index = << >>
  /\ timeout = << >>
  /\ remark = default_remark(value, index)

NextPage ==
  \/ \E c \in Classes : \E a \in ArgsOf(c) : Construct(c, a)
  \/ \E p \in Pages : Get(p)
  \/ \E p \in Pages, c \in Classes \cup {"other"} :
       \E a \in {x \in ArgsOf(c) : Len(x) <= 3} : Dynamic(p, c, a)

SpecPage == InitPage /\ [][NextPage]_vars

\* swipe_by on one descriptor while the tree changes under the swipes
InitSwipe ==
  /\ InitDescriptor
  /\ DEFAULT = 0
  /\ RERAISE = TRUE
  /\ by = "id"
  /\ value = "a"
  /\ index = << >>
  /\ timeout = << >>
  /\ remark = default_remark(value, index)

NextSwipe ==
  \/ Appear("a", <<FALSE, TRUE, FALSE>>)
  \/ \E i \in 1..MaxNodes : Detach(i)
  \/ \E ms \in 0..MaxSwipe, ma \in 0..MaxAdjust, md \in 1..2 : StartSwipe(0, ms, ma, md)
  \/ \E shown \in BOOLEAN : Swiping(shown)
  \/ \E border \in Borders : Adjusting(border)
  \/ PollLocated("none")
  \/ Tick

SpecSwipe == InitSwipe /\ [][NextSwipe]_vars

\* ---------------------------------------------------------------- properties
\* the policy the caller asked for: reraise given, else Timeout.RERAISE
PolicyRaise == IF call.rr = << >> THEN RERAISE ELSE call.rr[1]

\* the timeout the caller asked for: per call, else per descriptor, else Timeout.DEFAULT
Texp ==
  IF call.tmo # << >> THEN call.tmo[1]
  ELSE IF timeout # << >> THEN timeout[1] ELSE hist.D0

Ended == pc = "idle" /\ result.k # "none"
WaitDone == Ended /\ call.op \in WaitOps
Returned(v) == result.k = "return" /\ result.v = v
Raised(e) == result.k = "raise" /\ result.v = e
TimeoutOutcome == Raised(TimeoutException) \/ Returned(PyFalse)

\* C1: a wait_* call made under the return-False policy (reraise=False, or
\* reraise=None while Timeout.RERAISE is False) never lets a TimeoutException
\* reach the caller, whatever the cache held when it started.
C1_ReturnFalseNeverRaises ==
  (WaitDone /\ ~PolicyRaise) => ~Raised(TimeoutException)

\* C1, seen from the cache: the calls that keep the promise are those that time out
\* inside the try block (wait_present, wait_absent, or a wait on a valid cached handle).
C1_TryBlockTimeoutReturnsFalse ==
  (WaitDone /\ ~PolicyRaise /\ hist.locWaits = 0) => ~Raised(TimeoutException)

InverseDone == WaitDone /\ call.op \in {"wait_invisible", "wait_unclickable"}

\* C5 as stated: wait_invisible / wait_unclickable return True only with present=False
\* and while the locator matches no node; with present=True an element that is absent
\* for the whole call ends in the timeout outcome.
C5_TrueOnlyWhenNoNodeMatches ==
  InverseDone =>
    /\ Returned(PyTrue) => (~call.present /\ hist.endResolved.t # "elem")
    /\ (call.present /\ ~hist.ever) => TimeoutOutcome

\* C5 amended: True is returned only with present=False, and only when the last poll
\* found no node or found a node that was detached before its state could be read
\* (a node rendered in its place may match the locator by then); with present=True an
\* element absent for the whole call ends in the timeout outcome.
C5_TrueOnlyWhenAbsenceTolerated ==
  InverseDone =>
    /\ Returned(PyTrue) =>
         (~call.present /\ (hist.lastFind = NoSuchElementException \/ hist.raced))
    /\ (call.present /\ ~hist.ever) => TimeoutOutcome

C5_Witness ==
  InverseDone /\ Returned(PyTrue) /\ hist.raced /\ hist.endResolved.t = "elem"

PresentDone == WaitDone /\ call.op = "wait_present"

\* the last moment at which until evaluates the predicate
LastPoll(T) == (T \div PollTicks) * PollTicks

\* C6 as stated: a node present without a break since d < timeout is returned by
\* wait_present, between d and timeout; and no handle is returned before its node exists.
C6_PresentWithinTimeout ==
  PresentDone =>
    /\ (hist.since # << >> /\ hist.since[1] < Texp) =>
         (Returned(hist.endResolved) /\ hist.since[1] <= result.at /\ result.at <= Texp)
    /\ (result.k = "return" /\ result.v.t = "elem") =>
         (hist.since # << >> /\ result.v = hist.endResolved
          /\ hist.since[1] <= result.at /\ result.at <= Texp)

\* C6 amended: the node is returned when it is present from a moment d that is no
\* later than the last poll of the wait (polls run every poll interval while the
\* elapsed time does not exceed timeout); a node that appears after the last poll
\* is missed although d < timeout.  No handle is returned before its node exists.
C6_PresentByLastPoll ==
  PresentDone =>
    /\ (hist.since # << >> /\ hist.since[1] <= LastPoll(Texp)) =>
         (Returned(hist.endResolved) /\ hist.since[1] <= result.at /\ result.at <= Texp)
    /\ (result.k = "return" /\ result.v.t = "elem") =>
         (hist.since # << >> /\ result.v = hist.endResolved
          /\ hist.since[1] <= result.at /\ result.at <= Texp)

C6_Witness ==
  PresentDone /\ hist.since # << >> /\ hist.since[1] > 0 /\ Returned(hist.endResolved)

\* C7: when no node matches during the whole call, wait_present under the raise
\* policy raises TimeoutException, and no TimeoutException leaves wait_present before
\* timeout has elapsed.
C7_AbsentRaisesAfterTimeout ==
  PresentDone =>
    /\ (~hist.ever /\ PolicyRaise) => Raised(TimeoutException)
    /\ Raised(TimeoutException) => result.at >= Texp

C7_Witness ==
  PresentDone /\ ~hist.ever /\ PolicyRaise /\ Raised(TimeoutException) /\ Texp > 0

\* what a wait on a locator with zero matches ends in
ZeroMatchOutcome ==
  IF call.op = "wait_absent" \/ (call.op \in {"wait_invisible", "wait_unclickable"} /\ ~call.present)
  THEN Returned(PyTrue)
  ELSE TimeoutOutcome

\* C8: an index outside the match list is classified as NoSuchElementException: no
\* IndexError reaches the caller and a wait that resolves the locator ends as it does
\* for zero matches (a wait satisfied by a cached handle resolves nothing).
C8_IndexOutOfRangeIsNotFound ==
  /\ ~Raised(IndexError)
  /\ hist.oob => hist.lastFind = NoSuchElementException
  /\ (WaitDone /\ index # << >> /\ ~hist.ever /\ hist.locWaits > 0) => ZeroMatchOutcome

C8_Witness ==
  WaitDone /\ hist.oob /\ ~hist.ever /\ hist.finds > 0 /\ Len(find_elements(value)) > 0
  /\ TimeoutOutcome

\* C9: the timeout a wait uses and records in _wait_timeout is the per-call timeout
\* when given (0 included), else the descriptor's, else Timeout.DEFAULT as it is when
\* the call is made; _wait_timeout is unset until the first wait.
C9_TimeoutPrecedence ==
  /\ (call.op \in WaitOps /\ (pc # "idle" \/ result.k # "none")) => wait_timeout = <<Texp>>
  /\ pc \in {"poll", "sleep"} => w.T = Texp
  /\ wait_timeout = << >> => (pc = "idle" /\ call = NoCall /\ present_element = Unset)

C9_Witness ==
  WaitDone /\ call.tmo = << >> /\ timeout = << >> /\ DEFAULT # MaxTimeout /\ wait_timeout = <<DEFAULT>>

OpDone == Ended /\ call.op \in Ops

\* the cached handle was invalidated before the call, the locator matches a node, the
\* tree stays as it is during the call and the driver does not refuse the operation
StaleCase ==
  OpDone /\ hist.cache0 = "stale" /\ hist.pres0.t = "elem" /\ hist.changes = 0 /\ ~hist.refused

\* C2 as stated: on a stale cached handle, with a node matching the locator, every
\* operation returns its result computed on the freshly located handle, raises nothing,
\* and leaves the fresh handle in the cache.
C2_StaleHandleRecovered ==
  StaleCase =>
    (result.k = "return" /\ hist.appliedOn = hist.pres0 /\ present_element = hist.pres0)

\* the operation waits for more than presence, and the node is not in that state
NeedsMore ==
  call.op \in {"visible_text", "click"} /\ ~Holds(SlotOf(call.op, 1), NodeOf(hist.pres0.n))

\* C2 amended: operations on the present handle (is_visible, text, get_attribute, ...)
\* and clear / send_keys / submit recover as stated; operations on the visible or
\* clickable handle (visible_text, click) recover as stated when the node is visible /
\* clickable and otherwise raise TimeoutException.  No stale-reference exception
\* reaches the caller in either case.
C2_StaleHandleRecoveredOrTimeout ==
  StaleCase =>
    /\ ~NeedsMore => (result.k = "return" /\ hist.appliedOn = hist.pres0
                      /\ present_element = hist.pres0)
    /\ NeedsMore => Raised(TimeoutException)

C2_Witness ==
  StaleCase /\ result.k = "return" /\ hist.appliedOn = hist.pres0 /\ hist.locWaits = 1
  /\ present_element = hist.pres0

C10_NoLocatorFailsFast ==
  (Ended /\ ~(by # "None" /\ value # "None")) =>
    (Raised(ValueError) /\ hist.finds = 0 /\ hist.hcalls = 0)

SelectionDone == WaitDone /\ call.op \in {"wait_selected", "wait_unselected"}

\* C11: wait_selected and wait_unselected whose locator matches no node during the
\* whole call end in the timeout outcome (TimeoutException or False), never in a
\* handle or True.
C11_SelectionNeverSucceedsOnAbsent ==
  (SelectionDone /\ ~hist.ever) => (TimeoutOutcome /\ result.v.t # "elem" /\ result.v # PyTrue)

C11_Witness ==
  SelectionDone /\ ~hist.ever /\ hist.cache0 = "stale" /\ hist.finds > 0 /\ TimeoutOutcome

SwipeDone == Ended /\ call.op = "swipe_by"

\* C12: the search phase of swipe_by makes at most max_swipe swipes.
C12_SearchStopsAtMaxSwipe ==
  call.op = "swipe_by" => hist.searched <= swipe.max_swipe

\* C13: the adjusting phase of swipe_by makes at most max_adjust swipes and then
\* returns, whatever border the element has after each swipe (the call ends otherwise
\* only when the node is detached under it and its border cannot be read).
C13_AdjustStopsAtMaxAdjust ==
  call.op = "swipe_by" =>
    /\ hist.adjusted <= swipe.max_adjust
    /\ swipe.i <= swipe.max_adjust + 1
    /\ (call.stage = 2 /\ pc = "adjust") => hist.adjusted = swipe.i - 1
    /\ (call.stage = 2 /\ Ended) => (Returned(Self) \/ hist.changes > 0)

C13_Witness ==
  SwipeDone /\ Returned(Self) /\ swipe.max_adjust = MaxAdjust /\ hist.adjusted = MaxAdjust

ChainDone == Ended /\ call.op \in ChainOps

\* C14: an action-chain builder that returns, returns the Element it was called on,
\* on the cached-handle path as on the re-location path.
C14_BuilderReturnsSelf ==
  (ChainDone /\ result.k = "return") => Returned(Self)

Built == pc = "idle" /\ call.op \in {"__init__", "dynamic"} /\ Returned(Self)
Third == Arg(args.pos, 3)
Fourth == Arg(args.pos, 4)
ValueGiven == IF value = "None" THEN RawNone ELSE RawStr(value)

\* no remark reaches the descriptor: none is given and no argument is taken for one
NoRemark ==
  IF cls = "Element"
  THEN Arg(args.pos, 5) = RawNone /\ Third[1] \in {"int", "None"} /\ Fourth[1] \in {"int", "float", "None"}
  ELSE Fourth = RawNone /\ Third[1] \in {"int", "float", "None"}

\* C15 as stated: a third argument that is neither int nor None is the remark and index
\* is None; a fourth that is neither a number nor None is the remark and timeout is None;
\* without a remark it is the value, or '(value)[index]'; Elements alike for (by, value,
\* timeout-or-remark, remark); and all attributes, locator included, are readable.
C15_PositionalForms ==
  Built =>
    /\ cls = "Element" =>
         /\ Third[1] \notin {"int", "None"} => (index = << >> /\ remark = RawStr(str(Third)))
         /\ Fourth[1] \notin {"int", "float", "None"} => (timeout = << >> /\ remark = RawStr(str(Fourth)))
         /\ NoRemark => remark = (IF index = << >> THEN ValueGiven
                                  ELSE RawStr("(" \o value \o ")[" \o ToString(index[1]) \o "]"))
    /\ cls = "Elements" =>
         /\ Third[1] \notin {"int", "float", "None"} => (timeout = << >> /\ remark = RawStr(str(Third)))
         /\ NoRemark => remark = ValueGiven
    /\ LocatorOK

\* C15 amended: as stated, except that when the third and the fourth argument of Element
\* are both taken for remarks the fourth is the remark; that the default remark of
\* Element is the text of the value ('None' for no value) while that of Elements is the
\* value itself; and that locator is readable only when by and value are both given
\* (it raises ValueError otherwise), the other attributes always.
C15_PositionalFormsByPrecedence ==
  Built =>
    /\ cls = "Element" =>
         /\ Third[1] \notin {"int", "None"} =>
              /\ index = << >>
              /\ Fourth[1] \in {"int", "float", "None"} => remark = RawStr(str(Third))
         /\ Fourth[1] \notin {"int", "float", "None"} => (timeout = << >> /\ remark = RawStr(str(Fourth)))
         /\ NoRemark => remark = (IF index = << >> THEN RawStr(value)
                                  ELSE RawStr("(" \o value \o ")[" \o ToString(index[1]) \o "]"))
    /\ cls = "Elements" =>
         /\ Third[1] \notin {"int", "float", "None"} => (timeout = << >> /\ remark = RawStr(str(Third)))
         /\ NoRemark => remark = ValueGiven
    /\ LocatorOK <=> (Arg(args.pos, 1) # RawNone /\ Arg(args.pos, 2) # RawNone)
    /\ initial_timeout = (IF timeout = << >> THEN DEFAULT ELSE timeout[1])

C15_Witness ==
  Built /\ cls = "Element" /\ Third = RawInt(0 - 1) /\ Fourth = RawStr("r4")
  /\ index = <<0 - 1>> /\ timeout = << >> /\ remark = RawStr("r4")

\* C16: a call of a method decorated with @dynamic returns the Element / Elements its
\* body built, bound to the page it was called on (its driver is that page's driver),
\* and raises TypeError when the body returns anything else.
C16_DynamicBindsToCaller ==
  (pc = "idle" /\ call.op = "dynamic" /\ result.k # "none") =>
    /\ args.of \notin Classes => Raised(TypeError)
    /\ Raised(TypeError) => args.of \notin Classes
    /\ result.k = "return" =>
         (Returned(Self) /\ cls = args.of /\ _page = args.page /\ driver = DriverOf(args.page))

C16_Witness ==
  pc = "idle" /\ call.op = "dynamic" /\ Returned(Self) /\ args.page = 2 /\ _page = 2
  /\ cls = "Elements" /\ driver = DriverOf(2)

C18_ClickOnlyWhenClickable ==
  (OpDone /\ call.op = "click" /\ hist.cache0 = "valid" /\ hist.changes = 0 /\ hist.attempts = 1) =>
    Holds("clickable", NodeOf(clickable_element.n))

\* C20 as stated: when the node located by a locator-based wait is detached or replaced
\* before its state is read, that poll gives neither the stale exception nor a success:
\* the wait sleeps and polls again, and can end only at its deadline.
C20_StaleMidPollKeepsPolling ==
  hist.raced => (pc \in {"sleep", "poll"} \/ (Ended /\ TimeoutOutcome))

\* C20 amended: as stated for wait_visible, wait_clickable, wait_selected,
\* wait_unselected, wait_any_visible, wait_all_visible and, with present=True, for
\* wait_invisible and wait_unclickable; with present=False wait_invisible and
\* wait_unclickable take the stale failure as the absence they wait for and return True
\* from that poll.
C20_StaleMidPollKeepsPollingUnlessTolerated ==
  hist.raced =>
    IF call.op \in {"wait_invisible", "wait_unclickable"} /\ ~call.present
    THEN Ended /\ Returned(PyTrue)
    ELSE pc \in {"sleep", "poll"} \/ (Ended /\ TimeoutOutcome)

C20_Witness ==
  /\ hist.raced /\ pc = "poll"
  /\ call.op \in {"wait_visible", "wait_any_visible", "wait_all_visible"}

SwitchDone == Ended /\ call.op = "switch_to_webview" /\ args.pos[1]

\* the last WEBVIEW of the list
LatestWebview ==
  contexts[CHOOSE i \in 1..Len(contexts) :
             IsWebview(contexts[i]) /\ \A k \in (i + 1)..Len(contexts) : ~IsWebview(contexts[k])]

\* C19: when switch_to_webview(switch=True, index) returns the contexts, the current
\* context is a WEBVIEW, and with index -1 it is the last WEBVIEW of the list, whatever
\* the order of the list.
C19_SwitchEndsInWebview ==
  (SwitchDone /\ Returned(ContextsValue)) =>
    /\ IsWebview(current_context)
    /\ args.pos[2] = 0 - 1 => current_context = LatestWebview

\* C21: a wait_* call ends within its effective timeout plus one polling interval of
\* the moment it was called, also when the cached handle turns stale during the wait
\* and the call goes on with the locator.
C21_EndsWithinTimeout ==
  WaitDone => result.at <= Texp + PollTicks

FindDone == Ended /\ call.op = "find"

C23_MoveByOffsetIsStored ==
  (Ended /\ call.op = "move_by_offset") =>
    /\ Returned(PageValue(_page))
    /\ _action = Append(hist.chain0, Act("move_by_offset", "", 0, args.pos[1], args.pos[2]))
    /\ performed = hist.performed0

\* C24: after the locator of a descriptor was reassigned, an operation through the
\* descriptor acts on a node the new locator matches, never on a handle cached under
\* the previous locator.
C24_OperationUsesNewLocator ==
  (OpDone /\ result.k = "return" /\ hist.appliedOn.t = "elem") =>
    NodeOf(hist.appliedOn.n).val = value

\* C25: an operation invoked on the reference read from page A is executed against the
\* driver of page A, on a handle that driver returned, whatever was read from other
\* pages of the class in between.
C25_OperationStaysOnItsPage ==
  (OpDone /\ ref # 0) =>
    /\ hist.finds > 0 => _page = ref
    /\ (result.k = "return" /\ hist.appliedOn.t = "elem") => NodeOf(hist.appliedOn.n).drv = ref

\* C26: in the adjusting phase of swipe_by no swipe is made for an element whose four
\* borders lie within the area, boundaries included.
C26_NoAdjustInsideArea ==
  call.op = "swipe_by" => ~hist.swipedInside

HotkeyDone == Ended /\ call.op = "hotkey" /\ Returned(Self)

\* what hotkey(k1, ..., kn) is to add to the chain
HotkeyOrder(keys, e) ==
  LET n == Len(keys) IN
  [i \in 1..(2 * n - 1) |->
     IF i < n THEN Act("key_down", keys[i], IF i = 1 THEN e.n ELSE 0, 0, 0)
     ELSE IF i = n THEN Act("send_keys", keys[n], 0, 0, 0)
     ELSE Act("key_up", keys[2 * n - i], 0, 0, 0)]

\* C27: hotkey(k1, ..., kn) stores, in this order, key-down of k1 (on the element)
\* through k(n-1), a send of kn, and key-up of k(n-1) down to k1, for every n >= 1.
C27_HotkeyReleasesKeys ==
  HotkeyDone =>
    SubSeq(_action, Len(hist.chain0) + 1, Len(_action)) = HotkeyOrder(args.pos, hist.appliedOn)

====
